---- MODULE Spec2Model ----
(***************************************************************************)
(* Model of lending-platform.py: the three CSV tables (users, loans,       *)
(* repayments), the menu loop and the six operations it dispatches to.     *)
(*                                                                         *)
(* Money is kept in cents (the code rounds monthly_payment to 2 decimal    *)
(* places); dates are day numbers (the code compares zero-padded           *)
(* YYYY-MM-DD strings, which order as the dates do).  generate_id() is     *)
(* modelled as returning a token no stored user or loan carries.           *)
(***************************************************************************)
EXTENDS Integers, Sequences, FiniteSets, TLC

----------------------------------------------------------------------------
(* Bounds of the model *)

(* how many tokens generate_id hands out, to users and loans together *)
MaxIds == 4

(* days the system clock is observed at *)
ClockDays == {0, 30, 60}

(* what the user may type *)
Names == {"Alice"}
RoleInputs == {"borrower", "investor", "Borrower", "admin"}
AmountInputs == {"1000", "abc"}
RateInputs == {"10", "abc"}
DurationInputs == {"-1", "0", "2", "abc"}
IdInputs == 1..MaxIds

(* timedelta(days=30 * (i + 1)) *)
InstallmentDays == 30

----------------------------------------------------------------------------
VARIABLES
    users,        \* rows of data/users.csv
    loans,        \* rows of data/loans.csv
    repayments,   \* rows of data/repayments.csv
    today,        \* datetime.today(), as a day number
    pc,           \* "menu" (inside the while loop), "exited", "crashed"
    inp,          \* what the user typed during the last menu iteration
    out,          \* the message the last menu iteration printed
    report        \* the totals the last menu iteration printed, if any

vars == <<users, loans, repayments, today, pc, inp, out, report>>

(* The answers of an iteration that decide which operation runs and on  *)
(* which rows: the menu choice, the role, the user id, the loan id.     *)
(* Nothing typed yet: ids are positive, so 0 stands for an id that was  *)
(* not asked for.  (Name, amount, rate and duration go into the row     *)
(* that is written, or are lost with the exception they raise.)         *)
NoInput ==
    [choice |-> "", role |-> "", user_id |-> 0, loan_id |-> 0]

(* the iteration printed no totals *)
NoReport == [investor_id |-> 0, expected |-> 0, paid |-> 0, outstanding |-> 0]

----------------------------------------------------------------------------
(* Helpers *)

(* str.lower() on the role inputs *)
Lower(s) == IF s = "Borrower" THEN "borrower" ELSE s

(* float(text) / int(text): the value, for the texts that parse *)
NumberValue ==
    ("-1" :> -1) @@ ("0" :> 0) @@ ("2" :> 2) @@ ("10" :> 10) @@ ("1000" :> 1000)

(* float(text) / int(text) does not raise ValueError *)
IsNumber(s) == s \in DOMAIN NumberValue

(* uuid4()[:8]: a token carried by no stored user or loan *)
generate_id == Len(users) + Len(loans) + 1

(* the check of line 62 without its role test *)
IsBorrower_Mut(id) ==
    \E i \in 1..Len(users) : users[i].user_id = id

(* any(u['user_id'] == id and u['role'] == 'borrower' for u in users) *)
IsBorrower(id) ==
    \E i \in 1..Len(users) : users[i].user_id = id /\ users[i].role = "borrower"

(* the check of line 91 without its role test *)
IsInvestor_Mut(id) ==
    \E i \in 1..Len(users) : users[i].user_id = id

(* any(u['user_id'] == id and u['role'] == 'investor' for u in users) *)
IsInvestor(id) ==
    \E i \in 1..Len(users) : users[i].user_id = id /\ users[i].role = "investor"

(* the check of line 52 with one role too many *)
ValidRole_Mut(role) == role \in {"borrower", "investor", "admin"}

(* role not in ['borrower', 'investor'] is false *)
ValidRole(role) == role \in {"borrower", "investor"}

(* the generator of line 97 without its status test *)
OpenLoanIndexes_Mut(loan_id) ==
    {i \in 1..Len(loans) : loans[i].loan_id = loan_id}

(* the indexes of the loans the generator of line 97 yields *)
OpenLoanIndexes(loan_id) ==
    {i \in 1..Len(loans) : loans[i].loan_id = loan_id /\ loans[i].status = "open"}

Min(S) == CHOOSE x \in S : \A y \in S : x <= y

(* round(n / d, 0) for d > 0, ties to even, as Python's round() *)
RoundHalfEven(n, d) ==
    LET q == n \div d
        r == n % d
    IN  IF 2 * r < d THEN q
        ELSE IF 2 * r > d THEN q + 1
        ELSE IF q % 2 = 0 THEN q ELSE q + 1

(* round(amount * (1 + rate / 100) / duration, 2), in cents; duration # 0 *)
MonthlyPayment(amount, rate, duration) ==
    IF duration > 0
    THEN RoundHalfEven(amount * (100 + rate), duration)
    ELSE RoundHalfEven(-(amount * (100 + rate)), -duration)

(* the rows invest appends: for i in range(duration) *)
RECURSIVE Installments(_, _, _, _, _)
Installments(loan_id, investor_id, payment, duration, i) ==
    IF i >= duration THEN << >>
    ELSE << [loan_id |-> loan_id, investor_id |-> investor_id,
             monthly_payment |-> payment,
             due_date |-> today + InstallmentDays * (i + 1),
             paid |-> "False"] >>
         \o Installments(loan_id, investor_id, payment, duration, i + 1)

(* the loop of lines 112-114 without its loan_id test *)
MarkFunded_Mut(ls, loan_id) ==
    [i \in 1..Len(ls) |-> [ls[i] EXCEPT !.status = "funded"]]

(* for l in loans: if l['loan_id'] == loan_id: l['status'] = 'funded' *)
MarkFunded(ls, loan_id) ==
    [i \in 1..Len(ls) |->
        IF ls[i].loan_id = loan_id THEN [ls[i] EXCEPT !.status = "funded"]
        ELSE ls[i]]

(* the test of line 123 with < for <= *)
IsDue_Mut(r, t) == r.due_date < t /\ r.paid = "False"

(* r['due_date'] <= today and r['paid'] == 'False' *)
IsDue(r, t) == r.due_date <= t /\ r.paid = "False"

(* the loop of lines 122-125 flipping the flag of every row that has come due *)
ProcessRows_Mut(rows, t) ==
    [i \in 1..Len(rows) |->
        IF rows[i].due_date <= t
        THEN [rows[i] EXCEPT !.paid = IF @ = "True" THEN "False" ELSE "True"]
        ELSE rows[i]]

(* the loop of process_repayments over the loaded rows *)
ProcessRows(rows, t) ==
    [i \in 1..Len(rows) |->
        IF IsDue(rows[i], t) THEN [rows[i] EXCEPT !.paid = "True"] ELSE rows[i]]

(* the flag 'updated' at the end of that loop *)
Updated(rows, t) == \E i \in 1..Len(rows) : IsDue(rows[i], t)

(* what process_repayments leaves in the file: written only if updated *)
ProcessedTable(rows, t) == IF Updated(rows, t) THEN ProcessRows(rows, t) ELSE rows

(* sum(float(r['monthly_payment']) for r in data if r['investor_id'] == id) *)
RECURSIVE TotalExpected(_, _)
TotalExpected(data, id) ==
    IF data = << >> THEN 0
    ELSE (IF Head(data).investor_id = id THEN Head(data).monthly_payment ELSE 0)
         + TotalExpected(Tail(data), id)

(* the sum of line 136 without its paid test *)
TotalPaid_Mut(data, id) == TotalExpected(data, id)

(* the same sum with "and r['paid'] == 'True'" *)
RECURSIVE TotalPaid(_, _)
TotalPaid(data, id) ==
    IF data = << >> THEN 0
    ELSE (IF Head(data).investor_id = id /\ Head(data).paid = "True"
          THEN Head(data).monthly_payment ELSE 0)
         + TotalPaid(Tail(data), id)

----------------------------------------------------------------------------
(* State after the module has run init_csv three times on an empty folder *)

Init ==
    /\ users = << >>
    /\ loans = << >>
    /\ repayments = << >>
    /\ today = 0
    /\ pc = "menu"
    /\ inp = NoInput
    /\ out = ""
    /\ report = NoReport

----------------------------------------------------------------------------
(* Menu choice 1 *)
register_user ==
    /\ pc = "menu"
    /\ \E name \in Names, role \in RoleInputs :
        /\ inp' = [NoInput EXCEPT !.choice = "1", !.role = role]
        /\ IF ~ValidRole(Lower(role))
           THEN /\ out' = "InvalidRole"
                /\ users' = users
           ELSE /\ generate_id <= MaxIds
                /\ users' = Append(users, [user_id |-> generate_id,
                                           name |-> name, role |-> Lower(role)])
                /\ out' = "Registered"
    /\ report' = NoReport
    /\ UNCHANGED <<loans, repayments, today, pc>>

(* Menu choice 2 *)
list_loan ==
    /\ pc = "menu"
    /\ \E id \in IdInputs :
        /\ inp' = [NoInput EXCEPT !.choice = "2", !.user_id = id]
        /\ IF ~IsBorrower(id)
           THEN /\ out' = "InvalidBorrower"
                /\ UNCHANGED <<loans, pc>>
           ELSE \E amount \in AmountInputs :
                IF ~IsNumber(amount)
                THEN /\ out' = "ValueError"
                     /\ pc' = "crashed"
                     /\ UNCHANGED loans
                ELSE \E rate \in RateInputs :
                    IF ~IsNumber(rate)
                    THEN /\ out' = "ValueError"
                         /\ pc' = "crashed"
                         /\ UNCHANGED loans
                    ELSE \E duration \in DurationInputs :
                        IF ~IsNumber(duration)
                        THEN /\ out' = "ValueError"
                             /\ pc' = "crashed"
                             /\ UNCHANGED loans
                        ELSE /\ generate_id <= MaxIds
                             /\ loans' = Append(loans,
                                    [loan_id |-> generate_id,
                                     borrower_id |-> id,
                                     amount |-> NumberValue[amount],
                                     interest_rate |-> NumberValue[rate],
                                     duration |-> NumberValue[duration],
                                     status |-> "open"])
                             /\ out' = "Listed"
                             /\ pc' = pc
    /\ report' = NoReport
    /\ UNCHANGED <<users, repayments, today>>

(* Menu choice 3 *)
view_loans ==
    /\ pc = "menu"
    /\ inp' = [NoInput EXCEPT !.choice = "3"]
    /\ out' = IF \E i \in 1..Len(loans) : loans[i].status = "open"
              THEN "OpenLoans" ELSE "NoOpenLoans"
    /\ report' = NoReport
    /\ UNCHANGED <<users, loans, repayments, today, pc>>

(* Menu choice 4 *)
invest ==
    /\ pc = "menu"
    /\ \E investor_id \in IdInputs :
        IF ~IsInvestor(investor_id)
        THEN /\ inp' = [NoInput EXCEPT !.choice = "4", !.user_id = investor_id]
             /\ out' = "InvalidInvestor"
             /\ UNCHANGED <<loans, repayments, pc>>
        ELSE \E loan_id \in IdInputs :
            /\ inp' = [NoInput EXCEPT !.choice = "4", !.user_id = investor_id,
                                      !.loan_id = loan_id]
            /\ IF OpenLoanIndexes(loan_id) = {}
               THEN /\ out' = "InvalidLoan"
                    /\ UNCHANGED <<loans, repayments, pc>>
               ELSE LET loan == loans[Min(OpenLoanIndexes(loan_id))] IN
                    IF loan.duration = 0
                    THEN /\ out' = "ZeroDivisionError"
                         /\ pc' = "crashed"
                         /\ UNCHANGED <<loans, repayments>>
                    ELSE /\ repayments' = repayments \o
                                Installments(loan_id, investor_id,
                                    MonthlyPayment(loan.amount, loan.interest_rate,
                                                   loan.duration),
                                    loan.duration, 0)
                         /\ loans' = MarkFunded(loans, loan_id)
                         /\ out' = "Invested"
                         /\ pc' = pc
    /\ report' = NoReport
    /\ UNCHANGED <<users, today>>

(* Menu choice 5 *)
process_repayments ==
    /\ pc = "menu"
    /\ inp' = [NoInput EXCEPT !.choice = "5"]
    /\ repayments' = ProcessedTable(repayments, today)
    /\ out' = IF Updated(repayments, today) THEN "Processed" ELSE "NoneDue"
    /\ report' = NoReport
    /\ UNCHANGED <<users, loans, today, pc>>

(* Menu choice 6 *)
investor_dashboard ==
    /\ pc = "menu"
    /\ \E investor_id \in IdInputs :
        /\ inp' = [NoInput EXCEPT !.choice = "6", !.user_id = investor_id]
        /\ report' = [investor_id |-> investor_id,
                      expected |-> TotalExpected(repayments, investor_id),
                      paid |-> TotalPaid(repayments, investor_id),
                      outstanding |-> TotalExpected(repayments, investor_id)
                                      - TotalPaid(repayments, investor_id)]
    /\ out' = "Dashboard"
    /\ UNCHANGED <<users, loans, repayments, today, pc>>

(* Menu choice 7 *)
exit_menu ==
    /\ pc = "menu"
    /\ inp' = [NoInput EXCEPT !.choice = "7"]
    /\ out' = "Goodbye"
    /\ pc' = "exited"
    /\ report' = NoReport
    /\ UNCHANGED <<users, loans, repayments, today>>

(* Any other choice *)
invalid_choice ==
    /\ pc = "menu"
    /\ inp' = [NoInput EXCEPT !.choice = "8"]
    /\ out' = "InvalidChoice"
    /\ report' = NoReport
    /\ UNCHANGED <<users, loans, repayments, today, pc>>

(* The script is started again on the same data folder *)
main ==
    /\ pc \in {"exited", "crashed"}
    /\ pc' = "menu"
    /\ inp' = NoInput
    /\ out' = ""
    /\ report' = NoReport
    /\ UNCHANGED <<users, loans, repayments, today>>

(* The system clock moves on *)
Tick ==
    /\ \E d \in ClockDays : d > today /\ today' = d
    /\ UNCHANGED <<users, loans, repayments, pc, inp, out, report>>

Next ==
    \/ register_user
    \/ list_loan
    \/ view_loans
    \/ invest
    \/ process_repayments
    \/ investor_dashboard
    \/ exit_menu
    \/ invalid_choice
    \/ main
    \/ Tick

Spec == Init /\ [][Next]_vars

----------------------------------------------------------------------------
(* Vocabulary of the properties.  It is written out here rather than      *)
(* taken from the helpers above, so that a property does not move with    *)
(* the definition it is about.                                            *)

(* the step is one iteration of the menu loop *)
MenuStep == pc = "menu" /\ today' = today

(* the iteration in which the user chose c *)
Chose(c) == MenuStep /\ inp'.choice = c

StoredBorrower(id) ==
    \E i \in DOMAIN users : users[i].user_id = id /\ users[i].role = "borrower"

StoredInvestor(id) ==
    \E i \in DOMAIN users : users[i].user_id = id /\ users[i].role = "investor"

OpenLoan(id) ==
    \E i \in DOMAIN loans : loans[i].loan_id = id /\ loans[i].status = "open"

FundedLoan(id) ==
    \E i \in DOMAIN loans : loans[i].loan_id = id /\ loans[i].status = "funded"

RowsOf(id) == {i \in DOMAIN repayments : repayments[i].loan_id = id}

IsPrefix(a, b) == Len(a) <= Len(b) /\ \A i \in DOMAIN a : b[i] = a[i]

(* the sum of monthly_payment over a set of rows of the repayments table *)
RECURSIVE SumRows(_)
SumRows(I) ==
    IF I = {} THEN 0
    ELSE LET i == CHOOSE j \in I : TRUE
         IN  repayments[i].monthly_payment + SumRows(I \ {i})

Abs(x) == IF x < 0 THEN -x ELSE x

(* p/100 is within half a cent of amount * (1 + rate/100) / duration *)
NearestCent(p, amount, rate, duration) ==
    2 * Abs(p * duration - amount * (100 + rate)) <= Abs(duration)

----------------------------------------------------------------------------
(* C1: for every funded loan, the number of installment rows carrying its *)
(* loan_id equals its duration, and each of them carries the monthly      *)
(* payment round(amount * (1 + rate/100) / duration, 2) of that loan.     *)
C1_FundedLoanSchedule ==
    \A i \in DOMAIN loans :
        loans[i].status = "funded" =>
            /\ Cardinality(RowsOf(loans[i].loan_id)) = loans[i].duration
            /\ \A r \in RowsOf(loans[i].loan_id) :
                NearestCent(repayments[r].monthly_payment, loans[i].amount,
                            loans[i].interest_rate, loans[i].duration)

(* C1, for the loans listed with a duration of at least one month: the    *)
(* schedule the code writes is the one the claim describes.               *)
C1_PositiveDurationSchedule ==
    \A i \in DOMAIN loans :
        (loans[i].status = "funded" /\ loans[i].duration >= 1) =>
            /\ Cardinality(RowsOf(loans[i].loan_id)) = loans[i].duration
            /\ \A r \in RowsOf(loans[i].loan_id) :
                NearestCent(repayments[r].monthly_payment, loans[i].amount,
                            loans[i].interest_rate, loans[i].duration)

(* C2: funding asked for a loan id that is not the id of an open loan     *)
(* reports an invalid loan and leaves the loans and repayments tables as  *)
(* they were; installments are only ever added for a loan that was open   *)
(* and had none, so no loan gets a second set of installments.            *)
C2_NoSecondFunding ==
    [][ /\ (Chose("4") /\ inp'.loan_id \in IdInputs /\ ~OpenLoan(inp'.loan_id))
            => (out' = "InvalidLoan" /\ repayments' = repayments
                /\ loans' = loans /\ pc' = "menu")
        /\ \A k \in DOMAIN repayments' :
            k > Len(repayments) =>
                /\ OpenLoan(repayments'[k].loan_id)
                /\ RowsOf(repayments'[k].loan_id) = {}
                /\ Chose("4") /\ inp'.loan_id = repayments'[k].loan_id
      ]_vars

C2_Witness ==
    /\ out = "InvalidLoan"
    /\ FundedLoan(inp.loan_id)
    /\ RowsOf(inp.loan_id) # {}

(* C3 as stated: registration with a typed role other than borrower or    *)
(* investor is refused and leaves the users table unchanged.              *)
C3_TypedRoleRefused ==
    [][ (Chose("1") /\ inp'.role \notin {"borrower", "investor"})
            => (out' = "InvalidRole" /\ users' = users) ]_vars

(* C3 as amended: registration with a role that is neither borrower nor   *)
(* investor in any letter case is refused and leaves the users table      *)
(* unchanged; every stored user has role borrower or investor.            *)
C3_RoleRefusedUpToCase ==
    /\ [](\A i \in DOMAIN users : users[i].role \in {"borrower", "investor"})
    /\ [][ (Chose("1") /\ inp'.role \notin {"borrower", "investor", "Borrower"})
            => (out' = "InvalidRole" /\ users' = users) ]_vars
    /\ [][ (Chose("1") /\ inp'.role \in {"borrower", "Borrower"})
            => (out' = "Registered" /\ Len(users') = Len(users) + 1
                /\ users'[Len(users')].role = "borrower") ]_vars

C3_Witness ==
    /\ out = "InvalidRole"
    /\ inp.role = "admin"
    /\ \E i \in DOMAIN users : users[i].role = "borrower"

(* C4: processing repayments twice on the same date leaves the table as   *)
(* processing once does; the second run finds nothing due.                *)
C4_ProcessIdempotent ==
    \A t \in ClockDays :
        LET once == ProcessedTable(repayments, t)
        IN  /\ ProcessedTable(once, t) = once
            /\ ~Updated(once, t)
            /\ \A i \in DOMAIN repayments :
                repayments[i].paid = "True" => once[i].paid = "True"

C4_Witness ==
    /\ out = "Processed"
    /\ \E i, j \in DOMAIN repayments :
        /\ repayments[i].paid = "True" /\ repayments[i].due_date < today
        /\ repayments[j].paid = "True" /\ repayments[j].due_date = today

(* C5: the menu loop is left only through choice 7.                       *)
C5_LoopEndsOnlyOnExit ==
    [][ (pc = "menu" /\ pc' # "menu") => inp'.choice = "7" ]_vars

(* C6: listing a loan under an id that is not a stored borrower's reports *)
(* an invalid borrower and appends nothing; a listing appends exactly one *)
(* open loan with that borrower_id and nothing else changes the table's   *)
(* length; every stored loan's borrower_id is a stored borrower's id.     *)
C6_ListLoanBorrower ==
    /\ [](\A i \in DOMAIN loans : StoredBorrower(loans[i].borrower_id))
    /\ [][ /\ (Chose("2") /\ ~StoredBorrower(inp'.user_id))
                => (out' = "InvalidBorrower" /\ loans' = loans)
           /\ (Chose("2") /\ out' = "Listed")
                => /\ loans' = Append(loans, loans'[Len(loans')])
                   /\ loans'[Len(loans')].status = "open"
                   /\ loans'[Len(loans')].borrower_id = inp'.user_id
           /\ Len(loans') # Len(loans) => (Chose("2") /\ out' = "Listed")
         ]_vars

C6_Witness ==
    /\ out = "InvalidBorrower"
    /\ StoredInvestor(inp.user_id)
    /\ loans # << >>

(* C7: the totals the dashboard prints for an investor id are the sum of  *)
(* monthly_payment over that investor's installments, the same sum over   *)
(* those that are paid, and their difference; the dashboard writes no     *)
(* table.                                                                 *)
C7_InvestorSummary ==
    /\ [](out = "Dashboard" =>
            LET mine == {i \in DOMAIN repayments :
                            repayments[i].investor_id = inp.user_id}
                done == {i \in mine : repayments[i].paid = "True"}
            IN  /\ report.investor_id = inp.user_id
                /\ report.expected = SumRows(mine)
                /\ report.paid = SumRows(done)
                /\ report.outstanding = report.expected - report.paid)
    /\ [][ Chose("6") => (out' = "Dashboard"
                          /\ UNCHANGED <<users, loans, repayments>>) ]_vars

C7_Witness ==
    /\ out = "Dashboard"
    /\ report.paid > 0
    /\ report.outstanding > 0

(* C8: a stored loan changes only by its status going from open to        *)
(* funded, in a successful investment in that loan's id; the loans table  *)
(* never loses a row.                                                     *)
C8_LoanStatusOnce ==
    [][ /\ Len(loans') >= Len(loans)
        /\ \A i \in DOMAIN loans :
            \/ loans'[i] = loans[i]
            \/ /\ loans[i].status = "open"
               /\ loans'[i] = [loans[i] EXCEPT !.status = "funded"]
               /\ Chose("4") /\ out' = "Invested"
               /\ inp'.loan_id = loans[i].loan_id
      ]_vars

C8_Witness ==
    /\ out = "Invested"
    /\ FundedLoan(inp.loan_id)
    /\ \E i \in DOMAIN loans : loans[i].status = "open"

(* C9: a stored installment changes only by its paid flag going from      *)
(* False to True, in process_repayments, when its due date is not after   *)
(* the processing date; process_repayments leaves no installment due on   *)
(* or before that date unpaid and the later ones as they were.            *)
C9_PaidOnceWhenDue ==
    [][ /\ Len(repayments') >= Len(repayments)
        /\ \A i \in DOMAIN repayments :
            \/ repayments'[i] = repayments[i]
            \/ /\ repayments[i].paid = "False"
               /\ repayments'[i] = [repayments[i] EXCEPT !.paid = "True"]
               /\ Chose("5")
               /\ repayments[i].due_date <= today
        /\ Chose("5") =>
            /\ Len(repayments') = Len(repayments)
            /\ \A i \in DOMAIN repayments :
                IF repayments[i].due_date <= today
                THEN repayments'[i].paid = "True"
                ELSE repayments'[i] = repayments[i]
      ]_vars

C9_Witness ==
    /\ out = "Processed"
    /\ \E i, j \in DOMAIN repayments :
        /\ repayments[i].paid = "True" /\ repayments[i].due_date = today
        /\ repayments[j].paid = "False" /\ repayments[j].due_date > today

(* C10: every installment's loan_id is the id of a stored funded loan and *)
(* its investor_id the id of a stored investor; an open loan has no       *)
(* installments; an investment asked for under an id that is not a stored *)
(* investor's writes nothing.                                             *)
C10_RepaymentReferences ==
    /\ [](\A k \in DOMAIN repayments :
            /\ FundedLoan(repayments[k].loan_id)
            /\ ~OpenLoan(repayments[k].loan_id)
            /\ StoredInvestor(repayments[k].investor_id))
    /\ [][ (Chose("4") /\ ~StoredInvestor(inp'.user_id))
            => (out' = "InvalidInvestor"
                /\ UNCHANGED <<users, loans, repayments>>) ]_vars

C10_Witness ==
    /\ out = "InvalidInvestor"
    /\ StoredBorrower(inp.user_id)
    /\ repayments # << >>
    /\ \E i \in DOMAIN loans : loans[i].status = "open"

====
